---- MODULE Spec2Model ----
(***************************************************************************)
(* Model of internal/gotest/reader.go: Reader.ReadAll (the line loop, the  *)
(* cancellation check, the decode-error list, the fold into the prefix     *)
(* tree) and Reader.walk (the shared prefix-log buffer, the extraction of  *)
(* a node's slice, the separation and ordering of result rows, the         *)
(* stripping of the indent).                                               *)
(*                                                                         *)
(* Strings are sequences of one-character strings, so that Contains,       *)
(* Count, Replace, Split and TrimSuffix are computed as the Go library     *)
(* computes them.  A test name is the sequence of its "/"-separated        *)
(* segments.  A Go pointer that may be nil is a sequence of length 0 (nil) *)
(* or 1.  An input line is represented by what encoding/json makes of it:  *)
(* whether Unmarshal reports an error and the Entry fields it filled in    *)
(* (Unmarshal keeps filling fields after a type mismatch, and fills none   *)
(* after a syntax error).                                                  *)
(***************************************************************************)
EXTENDS Integers, Sequences, FiniteSets, TLC

\* Bound of the model: the number of lines the input stream may hold.
MaxLines == 4

\* mx := 1<<31 - 1
MaxInt31 == 2147483647

NL == "\n"

\* const whitespaceIndent = "    "
whitespaceIndent == <<" ", " ", " ", " ">>

\* The action tokens of the event vocabulary (lower case, as decoded).
ActionPass == <<"p", "a", "s", "s">>

ActionFail == <<"f", "a", "i", "l">>

ActionSkip == <<"s", "k", "i", "p">>

ActionOutput == <<"o", "u", "t", "p", "u", "t">>

---------------------------------------------------------------------------
(* The string functions of the Go library that the reader uses.            *)

UpperOf(c) ==
    CASE c = "a" -> "A" [] c = "f" -> "F" [] c = "i" -> "I" [] c = "k" -> "K"
      [] c = "l" -> "L" [] c = "p" -> "P" [] c = "s" -> "S"
      [] c = "o" -> "O" [] c = "u" -> "U" [] c = "t" -> "T"
      [] OTHER -> c

\* strings.ToUpper
ToUpper(s) == [i \in DOMAIN s |-> UpperOf(s[i])]

\* sub occurs in s at index i (1-based)
MatchAt(s, sub, i) ==
    /\ i + Len(sub) - 1 <= Len(s)
    /\ \A k \in 1..Len(sub) : s[i + k - 1] = sub[k]

\* strings.Contains
Contains(s, sub) == \E i \in 1..Len(s) : MatchAt(s, sub, i)

RECURSIVE CountFrom(_, _, _)
CountFrom(s, sub, i) ==
    IF i + Len(sub) - 1 > Len(s) THEN 0
    ELSE IF MatchAt(s, sub, i) THEN 1 + CountFrom(s, sub, i + Len(sub))
    ELSE CountFrom(s, sub, i + 1)

\* strings.Count: the number of non-overlapping instances of sub in s
Count(s, sub) == CountFrom(s, sub, 1)

RECURSIVE ReplaceFrom(_, _, _, _, _)
ReplaceFrom(s, old, new, n, i) ==
    IF n = 0 \/ i + Len(old) - 1 > Len(s) THEN SubSeq(s, i, Len(s))
    ELSE IF MatchAt(s, old, i)
         THEN new \o ReplaceFrom(s, old, new, n - 1, i + Len(old))
    ELSE <<s[i]>> \o ReplaceFrom(s, old, new, n, i + 1)

\* strings.Replace: the first n non-overlapping instances of old replaced
Replace(s, old, new, n) == ReplaceFrom(s, old, new, n, 1)

\* strings.TrimSuffix
TrimSuffix(s, suffix) ==
    IF Len(s) >= Len(suffix) /\ MatchAt(s, suffix, Len(s) - Len(suffix) + 1)
    THEN SubSeq(s, 1, Len(s) - Len(suffix))
    ELSE s

RECURSIVE SplitFrom(_, _, _)
SplitFrom(s, i, cur) ==
    IF i > Len(s) THEN <<cur>>
    ELSE IF s[i] = NL THEN <<cur>> \o SplitFrom(s, i + 1, <<>>)
    ELSE SplitFrom(s, i + 1, Append(cur, s[i]))

\* bytes.Split(all, []byte{'\n'}): n separators give n+1 pieces
Split(s) == SplitFrom(s, 1, <<>>)

RECURSIVE Flatten(_)
Flatten(ss) == IF ss = <<>> THEN <<>> ELSE Head(ss) \o Flatten(Tail(ss))

---------------------------------------------------------------------------
(* The input: lines as encoding/json decodes them into an Entry.           *)

Pkg == "pkg"

TestA == <<"TestA">>

TestASub == <<"TestA", "Sub">>

TestASub2 == <<"TestA", "Sub2">>

TestASubLeaf == <<"TestA", "Sub", "Leaf">>

TestB == <<"TestB">>

\* output fragments
FragA == <<"a", NL>>

FragSub == <<"b", NL>>

FragGap == <<"c">> \o whitespaceIndent \o <<"d", NL>>

FragNoNL == <<"e">>

FragPass == <<"-", "-", "-", "P", "A", "S", "S", NL>>

FragFail == <<"-", "-", "-", "F", "A", "I", "L", NL>>

FragSkip == <<"-", "-", "-", "S", "K", "I", "P", NL>>

FragDeepSkip ==
    whitespaceIndent \o whitespaceIndent \o <<"-", "-", "-", "S", "K", "I", "P", NL>>

\* type Entry: the fields of a decoded line that the reader uses
Entry(pkg, name, action, output) ==
    [Package |-> pkg, TestName |-> name, Action |-> action, Output |-> output]

\* var row Entry: the zero value
ZeroEntry == Entry("", <<>>, <<>>, <<>>)

Good(row) == [bad |-> FALSE, row |-> row]

Bad(row) == [bad |-> TRUE, row |-> row]

\* The lines the stream is drawn from.  The well-formed ones are events of
\* TestA, its subtests TestA/Sub (with TestA/Sub/Leaf) and TestA/Sub2, and TestB.  The malformed ones
\* are a line that is not JSON (no field decoded) and a line with a value of the
\* wrong type in one field (the other fields decoded).
Lines ==
    { Good(Entry(Pkg, TestA, ActionOutput, FragA)),
      Good(Entry(Pkg, TestA, ActionOutput, FragDeepSkip)),
      Good(Entry(Pkg, TestA, ActionPass, <<>>)),
      Good(Entry(Pkg, TestASub, ActionOutput, FragSub)),
      Good(Entry(Pkg, TestASub, ActionOutput, FragGap)),
      Good(Entry(Pkg, TestASub, ActionOutput, FragPass)),
      Good(Entry(Pkg, TestASub, ActionPass, <<>>)),
      Good(Entry(Pkg, TestASub2, ActionOutput, FragFail)),
      Good(Entry(Pkg, TestASubLeaf, ActionOutput, FragSkip)),
      Good(Entry(Pkg, TestB, ActionOutput, FragNoNL)),
      Bad(ZeroEntry),
      Bad(Entry(Pkg, TestB, ActionOutput, FragA)) }

---------------------------------------------------------------------------
(* Test and the prefix tree.  The tree is the sequence of its nodes in the *)
(* order of their creation; the children of a node are the nodes whose key *)
(* is the node's key with one more segment, in that order.                 *)

\* obj := &Test{Name: row.TestName, Package: row.Package}
NewTest(row) ==
    [Name |-> row.TestName, Package |-> row.Package, Output |-> <<>>, Status |-> <<>>]

\* key := row.Package + "/" + row.TestName
KeyOf(pkg, name) == <<pkg>> \o name

HasNode(t, key) == \E i \in DOMAIN t : t[i].Key = key

\* prefixNode.find: the Test at key, nil when there is none
find(t, key) ==
    IF \E i \in DOMAIN t : t[i].Key = key /\ t[i].Value # <<>>
    THEN (CHOOSE n \in {t[i] : i \in DOMAIN t} : n.Key = key).Value
    ELSE <<>>

RECURSIVE InsertPath(_, _, _, _)
InsertPath(t, pkg, name, i) ==
    IF i > Len(name) THEN t
    ELSE LET key == KeyOf(pkg, SubSeq(name, 1, i))
             t1 == IF HasNode(t, key) THEN t
                   ELSE Append(t, [Key |-> key, Value |-> <<>>])
         IN InsertPath(t1, pkg, name, i + 1)

SetValue(t, key, tc) ==
    [i \in DOMAIN t |-> IF t[i].Key = key THEN [t[i] EXCEPT !.Value = <<tc>>] ELSE t[i]]

\* prefixNode.insert: the nodes of the path that are missing are created, in
\* order, and the Test is attached to the last one
insert(t, obj) ==
    SetValue(InsertPath(t, obj.Package, obj.Name, 1), KeyOf(obj.Package, obj.Name), obj)

\* Test.Update
Update(tc, row) ==
    LET tc1 == IF row.Action = ActionOutput
               THEN [tc EXCEPT !.Output = Append(tc.Output, row.Output)]
               ELSE tc
    IN IF row.Action \in {ActionPass, ActionFail, ActionSkip}
       THEN [tc1 EXCEPT !.Status = row.Action]
       ELSE tc1

\* ReadAll, the fold of one decoded row into the tree
Fold(t, row) ==
    IF Len(row.TestName) > 0
    THEN LET key == KeyOf(row.Package, row.TestName)
             t1 == IF find(t, key) = <<>> THEN insert(t, NewTest(row)) ELSE t
         IN SetValue(t1, key, Update(find(t1, key)[1], row))
    ELSE t

ParentKey(key) == IF Len(key) <= 2 THEN <<>> ELSE SubSeq(key, 1, Len(key) - 1)

\* node.Children (prefix.Children for the root, whose key is <<>>)
Children(t, key) == SelectSeq(t, LAMBDA n : ParentKey(n.Key) = key)

---------------------------------------------------------------------------
(* The walk.                                                               *)

\* isResultActionRow: the row contains "---" and "FAIL", "PASS" or "SKIP"
isResultActionRow(s) ==
    /\ Contains(s, <<"-", "-", "-">>)
    /\ \/ Contains(s, ToUpper(ActionFail))
       \/ Contains(s, ToUpper(ActionPass))
       \/ Contains(s, ToUpper(ActionSkip))

\* newPrefixLog: an empty prefix, position 0 (and a fresh buffer)
newPrefixLog == [prefix |-> <<>>, pos |-> 0]

\* copy with the position of the receiver kept (r1.pos = r.pos)
copyKeepsPos(r, b) == [prefix |-> r.prefix, pos |-> r.pos]

\* prefixLog.copy: the same buffer b and prefix, the position at the buffer's end
copy(r, b) == [prefix |-> r.prefix, pos |-> Len(b)]

\* prefixLog.incrPrefix
incrPrefix(r) == [r EXCEPT !.prefix = r.prefix \o whitespaceIndent]

\* prefixLog.decrPrefix
decrPrefix(r) == [r EXCEPT !.prefix = TrimSuffix(r.prefix, whitespaceIndent)]

\* walk, the loop over output: a result row gets the prefix, written back into
\* output[idx].  output is the slice of the copied Test, which shares its
\* elements with the Output of the Test that the node owns.
Prefixed(output, prefix) ==
    [i \in DOMAIN output |->
        IF isResultActionRow(output[i]) THEN prefix \o output[i] ELSE output[i]]

\* the read of the buffer without the Seek
ReadFromStart(b, pos) == b

\* reader.Seek(prefix.pos, io.SeekCurrent); io.ReadAll(reader).  Neither call
\* fails: the position is never negative.
ReadFrom(b, pos) == SubSeq(b, pos + 1, Len(b))

\* the pieces of the slice, each with "\n" appended, the last one without
RowsOf(all) ==
    LET parts == Split(all)
        lastIdx == Len(parts)
    IN [i \in 1..lastIdx |->
          IF i = lastIdx THEN TrimSuffix(Append(parts[i], NL), <<NL>>)
          ELSE Append(parts[i], NL)]

RemoveAt(ss, i) == SubSeq(ss, 1, i - 1) \o SubSeq(ss, i + 1, Len(ss))

\* the loop from the last row to the first: a result row moves to mark, and mx
\* becomes the least count of indents among the result rows
RECURSIVE Separate(_, _, _, _)
Separate(ss, i, mark, mx) ==
    IF i = 0 THEN [stringsSlice |-> ss, mark |-> mark, mx |-> mx]
    ELSE IF isResultActionRow(ss[i])
         THEN LET cnt == Count(ss[i], whitespaceIndent)
              IN Separate(RemoveAt(ss, i), i - 1, Append(mark, ss[i]),
                          IF cnt < mx THEN cnt ELSE mx)
    ELSE Separate(ss, i - 1, mark, mx)

\* less with the comparison turned round
lessReversed(a, b) == Count(a, whitespaceIndent) > Count(b, whitespaceIndent)

\* the less function given to sort.Slice
less(a, b) == Count(a, whitespaceIndent) < Count(b, whitespaceIndent)

Swap(s, i, j) == [s EXCEPT ![i] = s[j], ![j] = s[i]]

RECURSIVE InsertBack(_, _)
InsertBack(s, j) ==
    IF j > 1 /\ less(s[j], s[j - 1]) THEN InsertBack(Swap(s, j, j - 1), j - 1) ELSE s

RECURSIVE InsertionSort(_, _)
InsertionSort(s, i) ==
    IF i > Len(s) THEN s ELSE InsertionSort(InsertBack(s, i), i + 1)

\* sort.Slice(mark, less): for a slice of at most 12 elements (every mark of
\* this model) the library sorts by insertion
SortSlice(mark) == InsertionSort(mark, 2)

\* strings.Replace(row, whitespaceIndent, "", mx) of every row, concatenated
StripAndJoin(rows, mx) ==
    Flatten([i \in DOMAIN rows |-> Replace(rows[i], whitespaceIndent, <<>>, mx)])

\* walk from the read of the buffer to the log: the locals of the call
Finish(b, pos) ==
    LET all == ReadFrom(b, pos)
        sep == Separate(RowsOf(all), Len(RowsOf(all)), <<>>, MaxInt31)
        mark == SortSlice(sep.mark)
    IN [all |-> all, stringsSlice |-> sep.stringsSlice, mark |-> mark,
        mx |-> sep.mx, log |-> StripAndJoin(sep.stringsSlice \o mark, sep.mx)]

\* the loop without the select on ctx.Done()
CancelledNever(done) == FALSE

\* select { case <-ctx.Done(): ... default: }
Cancelled(done) == done

\* errors.Join(errs...): nil (the empty sequence) when there is no error
errorsJoin(es) == es

EmptySet == [Err |-> <<>>, Tests |-> <<>>]

NoFin ==
    [valid |-> FALSE, node |-> <<>>, pos |-> 0, all |-> <<>>, stringsSlice |-> <<>>,
     mark |-> <<>>, mx |-> 0, log |-> <<>>]

---------------------------------------------------------------------------
VARIABLES
    pc,         \* "scan": in the line loop; "walk"; "done": returned; "panic"
    ctxAtStart, \* whether ctx was cancelled when ReadAll was called
    ctxDone,    \* whether ctx was cancelled at the last check
    scanned,    \* the number of lines r.r.Scan() has yielded
    errs,       \* var errs []error
    trie,       \* prefix: the nodes of the prefix tree
    result,     \* the Set returned (result, before the return)
    runErr,     \* the error returned
    testCases,  \* the top-level NestedTests collected
    topIdx,     \* the index of the range over prefix.Children
    buf,        \* the buffer shared by the calls of one top-level walk
    stack,      \* the calls of walk in progress
    fin         \* the locals of the call of walk that returned last

vars ==
    <<pc, ctxAtStart, ctxDone, scanned, errs, trie, result, runErr, testCases,
      topIdx, buf, stack, fin>>

Init ==
    /\ pc = "scan"
    /\ ctxAtStart \in BOOLEAN
    /\ ctxDone = ctxAtStart
    /\ scanned = 0
    /\ errs = <<>>
    /\ trie = <<>>
    /\ result = EmptySet
    /\ runErr = "nil"
    /\ testCases = <<>>
    /\ topIdx = 1
    /\ buf = <<>>
    /\ stack = <<>>
    /\ fin = NoFin

\* One iteration of the loop: r.r.Scan() yields a line.  cancel tells whether
\* the caller has cancelled ctx since the check of the iteration before (a
\* cancellation after the last check is never read).  On the return for a
\* cancelled ctx the locals errs and prefix are dropped with the call.
Scan(line, cancel) ==
    /\ pc = "scan"
    /\ scanned < MaxLines
    /\ scanned' = scanned + 1
    /\ ctxDone' = (ctxDone \/ cancel)
    /\ IF Cancelled(ctxDone')
       THEN /\ pc' = "done"
            /\ result' = EmptySet
            /\ runErr' = "context canceled"
            /\ errs' = <<>>
            /\ trie' = <<>>
       ELSE /\ errs' = IF line.bad THEN Append(errs, "json.Unmarshal") ELSE errs
            /\ trie' = Fold(trie, line.row)
            /\ UNCHANGED <<pc, result, runErr>>
    /\ UNCHANGED <<ctxAtStart, testCases, topIdx, buf, stack, fin>>

\* r.r.Scan() returns false: the loop ends, result.Err is set
EndOfStream ==
    /\ pc = "scan"
    /\ pc' = "walk"
    /\ result' = [Err |-> errorsJoin(errs), Tests |-> <<>>]
    /\ testCases' = <<>>
    /\ topIdx' = 1
    /\ UNCHANGED <<ctxAtStart, ctxDone, scanned, errs, trie, runErr, buf, stack, fin>>

\* A call of walk, from ReadAll (on the next child of the root, with a new
\* prefix log) or from the call on top of the stack (on its next child, with a
\* copy of its prefix log), down to the loop over the children.  The node
\* pointers of the tree are never nil; *node.Value panics for a node without
\* a Test.
WalkCall ==
    /\ pc = "walk"
    /\ LET top == stack[Len(stack)]
           kids == IF stack = <<>> THEN Children(trie, <<>>)
                   ELSE Children(trie, top.node)
           i == IF stack = <<>> THEN topIdx ELSE top.idx
       IN /\ i <= Len(kids)
          /\ LET node == kids[i]
                 plog == IF stack = <<>> THEN newPrefixLog ELSE copy(top.plog, buf)
                 b == IF stack = <<>> THEN <<>> ELSE buf
             IN IF node.Value = <<>>
                THEN /\ pc' = "panic"
                     /\ UNCHANGED <<trie, buf, stack, topIdx>>
                ELSE LET output == Prefixed(node.Value[1].Output, plog.prefix)
                         value == [node.Value[1] EXCEPT !.Output = <<>>]
                         frame == [node |-> node.Key, plog |-> incrPrefix(plog),
                                   idx |-> 1,
                                   testCase |-> [Value |-> value, Children |-> <<>>,
                                                 Log |-> <<>>]]
                     IN /\ trie' = SetValue(trie, node.Key,
                                            [node.Value[1] EXCEPT !.Output = output])
                        /\ buf' = b \o Flatten(output)
                        /\ IF stack = <<>>
                           THEN /\ topIdx' = topIdx + 1
                                /\ stack' = <<frame>>
                           ELSE /\ topIdx' = topIdx
                                /\ stack' = Append([stack EXCEPT ![Len(stack)].idx = i + 1],
                                                   frame)
                        /\ pc' = pc
    /\ UNCHANGED <<ctxAtStart, ctxDone, scanned, errs, result, runErr, testCases, fin>>

\* The call on top of the stack has walked its children: it reads its slice of
\* the buffer, builds the log and returns (testCase, true) to its caller.  The
\* deferred decrPrefix acts on the prefix log of the call, which nothing reads
\* after the return.
WalkReturn ==
    /\ pc = "walk"
    /\ stack # <<>>
    /\ LET top == stack[Len(stack)]
           f == Finish(buf, top.plog.pos)
           tc == [top.testCase EXCEPT !.Log = f.log]
           rest == SubSeq(stack, 1, Len(stack) - 1)
       IN /\ top.idx > Len(Children(trie, top.node))
          /\ fin' = [valid |-> TRUE, node |-> top.node, pos |-> top.plog.pos,
                     all |-> f.all, stringsSlice |-> f.stringsSlice,
                     mark |-> f.mark, mx |-> f.mx, log |-> f.log]
          /\ IF rest = <<>>
             THEN /\ testCases' = Append(testCases, tc)
                  /\ stack' = rest
             ELSE /\ testCases' = testCases
                  /\ stack' = [rest EXCEPT ![Len(rest)].testCase.Children =
                                              Append(@, tc)]
    /\ UNCHANGED <<pc, ctxAtStart, ctxDone, scanned, errs, trie, result, runErr,
                   topIdx, buf>>

\* The range over prefix.Children has ended: return result, nil
Return ==
    /\ pc = "walk"
    /\ stack = <<>>
    /\ topIdx > Len(Children(trie, <<>>))
    /\ pc' = "done"
    /\ result' = [result EXCEPT !.Tests = testCases]
    /\ runErr' = "nil"
    /\ UNCHANGED <<ctxAtStart, ctxDone, scanned, errs, trie, testCases, topIdx,
                   buf, stack, fin>>

Next ==
    \/ \E line \in Lines, cancel \in BOOLEAN : Scan(line, cancel)
    \/ EndOfStream
    \/ WalkCall
    \/ WalkReturn
    \/ Return

Spec == Init /\ [][Next]_vars

---------------------------------------------------------------------------
(* Definitions used to state the claims.                                   *)

NodeAt(t, key) == CHOOSE n \in {t[i] : i \in DOMAIN t} : n.Key = key

\* the keys of the Tests of the tree
TestKeys(t) == {t[i].Key : i \in {j \in DOMAIN t : t[j].Value # <<>>}}

RECURSIVE ResultKeys(_)
ResultKeys(tests) ==
    UNION {{KeyOf(tests[i].Value.Package, tests[i].Value.Name)}
             \cup ResultKeys(tests[i].Children) : i \in DOMAIN tests}

IndentCount(row) == Count(row, whitespaceIndent)

IsNarrativeRow(row) == ~isResultActionRow(row)

Nondecreasing(rows) ==
    \A i, j \in DOMAIN rows : i < j => IndentCount(rows[i]) <= IndentCount(rows[j])

Occurrences(rows, r) == Cardinality({i \in DOMAIN rows : rows[i] = r})

SameRows(a, b) ==
    /\ Len(a) = Len(b)
    /\ \A i \in DOMAIN a : Occurrences(a, a[i]) = Occurrences(b, a[i])

RECURSIVE LeadingUnits(_)
LeadingUnits(row) ==
    IF MatchAt(row, whitespaceIndent, 1)
    THEN 1 + LeadingUnits(SubSeq(row, Len(whitespaceIndent) + 1, Len(row)))
    ELSE 0

Least(a, b) == IF a < b THEN a ELSE b

\* row without its first m leading indent units (all of them when it has fewer)
CutLeading(row, m) ==
    SubSeq(row, Least(m, LeadingUnits(row)) * Len(whitespaceIndent) + 1, Len(row))

MinCount(rows) ==
    CHOOSE m \in {IndentCount(rows[i]) : i \in DOMAIN rows} :
        \A i \in DOMAIN rows : m <= IndentCount(rows[i])

RowsWithCount(rows, c) ==
    SelectSeq(rows, LAMBDA r : isResultActionRow(r) /\ IndentCount(r) = c)

\* the output of the Tests of the subtree of key, depth first, a node before
\* its children
RECURSIVE SubtreeOutput(_, _)
SubtreeOutput(t, key) ==
    LET n == NodeAt(t, key)
        kids == Children(t, key)
        own == IF n.Value = <<>> THEN <<>> ELSE Flatten(n.Value[1].Output)
    IN own \o Flatten([i \in DOMAIN kids |-> SubtreeOutput(t, kids[i].Key)])

---------------------------------------------------------------------------
(* The claims.                                                             *)

\* C1, as stated: with ctx cancelled before the call, whatever the stream,
\* ReadAll returns an empty Set and a non-nil error and never reaches the walk.
C1_CancelledAnyStream ==
    (ctxAtStart /\ pc # "scan") =>
        (pc = "done" /\ result = EmptySet /\ runErr # "nil")

\* C1, as amended: with ctx cancelled before the call and a stream of at least
\* one line, ReadAll returns an empty Set and the cancellation error at the
\* first line, and never walks a tree; for the empty stream it returns an
\* empty Set and a nil error.
C1_CancelledAtFirstLine ==
    /\ (ctxAtStart /\ scanned >= 1) =>
           (pc = "done" /\ result = EmptySet /\ runErr = "context canceled")
    /\ (ctxAtStart /\ scanned = 0 /\ pc = "done") =>
           (result = EmptySet /\ runErr = "nil")

C1_Witness == ctxAtStart /\ scanned >= 1 /\ pc = "done"

\* C2: when the run is not cancelled and at most one line was malformed, ReadAll
\* returns: nil error, every Test of the tree in the result, and a Set.Err
\* that is nil exactly when no line was malformed.
C2_DecodeErrorResilience ==
    (pc \in {"done", "panic"} /\ runErr = "nil" /\ Len(errs) <= 1) =>
        /\ pc = "done"
        /\ TestKeys(trie) \subseteq ResultKeys(result.Tests)
        /\ (result.Err = <<>>) <=> (errs = <<>>)

\* C3: the log of a walked node is made of the narrative rows of its slice in
\* their order, then the result rows of the slice in non-decreasing order of
\* their count of indent units.
C3_NarrativeThenResultsByDepth ==
    fin.valid =>
        LET rows == RowsOf(fin.all)
        IN /\ fin.stringsSlice = SelectSeq(rows, IsNarrativeRow)
           /\ SameRows(fin.mark, SelectSeq(rows, isResultActionRow))
           /\ Nondecreasing(fin.mark)
           /\ fin.log = StripAndJoin(fin.stringsSlice \o fin.mark, fin.mx)

\* a slice where a result row of count 2 was appended before one of count 1
C3_Witness ==
    /\ fin.valid
    /\ LET rows == RowsOf(fin.all)
       IN \E i, j \in DOMAIN rows :
            /\ i < j
            /\ isResultActionRow(rows[i]) /\ IndentCount(rows[i]) = 2
            /\ isResultActionRow(rows[j]) /\ IndentCount(rows[j]) = 1
            /\ fin.mark = <<rows[j], rows[i]>>

\* C4: the log of a walked node whose slice has a result row is the rows
\* (narrative, then result) each without m leading indent units, m the least
\* count among the result rows; nothing but leading indent units is removed.
C4_StripsLeadingIndentOnly ==
    (fin.valid /\ fin.mark # <<>>) =>
        LET rows == fin.stringsSlice \o fin.mark
            m == MinCount(fin.mark)
        IN fin.log = Flatten([i \in DOMAIN rows |-> CutLeading(rows[i], m)])

\* the scenario of C5: the four events of TestA and TestA/Sub and nothing else
C5_Scenario ==
    /\ pc = "done" /\ runErr = "nil" /\ scanned = 4 /\ errs = <<>>
    /\ trie = << [Key |-> KeyOf(Pkg, TestA),
                  Value |-> <<[Name |-> TestA, Package |-> Pkg,
                               Output |-> <<FragA>>, Status |-> ActionPass]>>],
                 [Key |-> KeyOf(Pkg, TestASub),
                  Value |-> <<[Name |-> TestASub, Package |-> Pkg,
                               Output |-> <<FragSub>>, Status |-> ActionPass]>>] >>

C6_NodeWithoutTestSkipped ==
    (pc \in {"done", "panic"} /\ runErr = "nil"
        /\ \E i \in DOMAIN trie : trie[i].Value = <<>>) =>
        /\ pc = "done"
        /\ LET top == SelectSeq(Children(trie, <<>>), LAMBDA n : n.Value # <<>>)
           IN /\ Len(result.Tests) = Len(top)
              /\ \A i \in DOMAIN top :
                    result.Tests[i].Value.Name = top[i].Value[1].Name

\* C7: in the log of a walked node, the result rows of equal count of indent
\* units are in the order they have in the slice.
C7_TiesInOriginalOrder ==
    fin.valid =>
        \A c \in {IndentCount(fin.mark[i]) : i \in DOMAIN fin.mark} :
            RowsWithCount(fin.mark, c) = RowsWithCount(RowsOf(fin.all), c)

\* C8: the slice a walked node reads is the output of its own Test followed by
\* that of its descendants, depth first, and nothing else of the buffer.
C8_SliceIsSubtreeOutput ==
    fin.valid => fin.all = SubtreeOutput(trie, fin.node)

\* a node whose slice starts after bytes of its parent or of a sibling
C8_Witness ==
    /\ fin.valid /\ fin.pos > 0 /\ fin.all # <<>>
    /\ Children(trie, fin.node) # <<>>
    /\ Len(fin.all) > Len(Flatten(NodeAt(trie, fin.node).Value[1].Output))

\* C9: no step of the walk changes the tree or a Test it owns.
C9_WalkLeavesTreeUnchanged == [][pc = "walk" => trie' = trie]_vars

\* C10: the iteration of a line whose decoding reports an error changes no
\* node and no Test of the tree.
C10_BadLineLeavesTreeUnchanged ==
    [][(pc = "scan" /\ Len(errs') > Len(errs)) => trie' = trie]_vars

====
